---- MODULE Spec2Model ----
(***************************************************************************)
(* Model of extended_yard_sale/helper.py: the Wealth ledger and the        *)
(* ExtendedYardSale engine.                                                *)
(*                                                                         *)
(* Balances are float64 values.  Every balance the engine stores is the    *)
(* result of x.round(2), that is rint(x * 100) / 100, so it is the double  *)
(* nearest to c/100 for an integer number of cents c.  The state keeps c;  *)
(* the phases convert it to the double, compute on doubles with IEEE-754   *)
(* round-to-nearest-even arithmetic, and convert back.  The arithmetic is  *)
(* written as functions, which are applied to evaluated arguments.         *)
(***************************************************************************)
EXTENDS Integers, Sequences, FiniteSets, TLC

(***************************************************************************)
(* Natural numbers of any size: little-endian sequences of limbs in base   *)
(* 2^15 with no most-significant zero limb (zero is the empty sequence).   *)
(* They carry the 53-bit significands of float64 values.                   *)
(***************************************************************************)
Base == 2^15

Limbs == Seq(Nat)

Min(a, b) == IF a <= b THEN a ELSE b

\* the lowest limb of a, and the limbs above it
Limb0(a) == IF a = <<>> THEN 0 ELSE Head(a)

Rest(a) == IF a = <<>> THEN a ELSE Tail(a)

BNorm[a \in Limbs] ==
    IF a = <<>> THEN a
    ELSE IF a[Len(a)] = 0 THEN BNorm[SubSeq(a, 1, Len(a) - 1)]
    ELSE a

BFromInt[n \in Nat] == IF n = 0 THEN <<>> ELSE <<n % Base>> \o BFromInt[n \div Base]

BToInt[a \in Limbs] == IF a = <<>> THEN 0 ELSE Head(a) + Base * BToInt[Tail(a)]

\* a + b + c for a carry c
BAddC[a \in Limbs, b \in Limbs, c \in Nat] ==
    IF a = <<>> /\ b = <<>> THEN (IF c = 0 THEN <<>> ELSE <<c>>)
    ELSE <<(Limb0(a) + Limb0(b) + c) % Base>>
         \o BAddC[Rest(a), Rest(b), (Limb0(a) + Limb0(b) + c) \div Base]

BAdd[a \in Limbs, b \in Limbs] == BAddC[a, b, 0]

\* the limbs of a - b - c for a borrow c and a >= b + c
BSubC[a \in Limbs, b \in Limbs, c \in Nat] ==
    IF a = <<>> THEN <<>>
    ELSE <<(Head(a) - Limb0(b) - c) % Base>>
         \o BSubC[Tail(a), Rest(b), IF Head(a) - Limb0(b) - c < 0 THEN 1 ELSE 0]

\* a - b for a >= b
BSub[a \in Limbs, b \in Limbs] == BNorm[BSubC[a, b, 0]]

BCmpAt[a \in Limbs, b \in Limbs, i \in Nat] ==
    IF i = 0 THEN 0
    ELSE IF a[i] < b[i] THEN -1
    ELSE IF a[i] > b[i] THEN 1
    ELSE BCmpAt[a, b, i - 1]

\* -1, 0 or 1 as a < b, a = b, a > b
BCmp[a \in Limbs, b \in Limbs] ==
    IF Len(a) < Len(b) THEN -1
    ELSE IF Len(a) > Len(b) THEN 1
    ELSE BCmpAt[a, b, Len(a)]

BMulSmallC[a \in Limbs, k \in Nat, c \in Nat] ==
    IF a = <<>> THEN (IF c = 0 THEN <<>> ELSE <<c>>)
    ELSE <<(Head(a) * k + c) % Base>> \o BMulSmallC[Tail(a), k, (Head(a) * k + c) \div Base]

\* a * k for 0 <= k < Base
BMulSmall[a \in Limbs, k \in Nat] == IF k = 0 THEN <<>> ELSE BMulSmallC[a, k, 0]

\* a * Base
BShiftLimb[a \in Limbs] == IF a = <<>> THEN a ELSE <<0>> \o a

BMul[a \in Limbs, b \in Limbs] ==
    IF a = <<>> \/ b = <<>> THEN <<>>
    ELSE BAdd[BMulSmall[a, Head(b)], BShiftLimb[BMul[a, Tail(b)]]]

\* long division of the limbs a[1..i] by 0 < k < Base, r and q carried
BDivSmallR[a \in Limbs, k \in Nat, i \in Nat, r \in Nat, q \in Limbs] ==
    IF i = 0 THEN [q |-> BNorm[q], r |-> r]
    ELSE BDivSmallR[a, k, i - 1, (r * Base + a[i]) % k, <<(r * Base + a[i]) \div k>> \o q]

\* quotient (a bignum) and remainder (an integer) of a by 0 < k < Base
BDivSmall[a \in Limbs, k \in Nat] == BDivSmallR[a, k, Len(a), 0, <<>>]

IntBits[d \in Nat] == IF d = 0 THEN 0 ELSE 1 + IntBits[d \div 2]

BBitLen[a \in Limbs] ==
    IF a = <<>> THEN 0 ELSE (Len(a) - 1) * 15 + IntBits[a[Len(a)]]

BZeros[n \in Nat] == [i \in 1..n |-> 0]

\* a * 2^n
BShl[a \in Limbs, n \in Nat] ==
    IF a = <<>> THEN a
    ELSE BZeros[n \div 15] \o BMulSmall[a, 2^(n % 15)]

\* floor(a / 2^n)
BShr[a \in Limbs, n \in Nat] ==
    IF n \div 15 >= Len(a) THEN <<>>
    ELSE BDivSmall[SubSeq(a, (n \div 15) + 1, Len(a)), 2^(n % 15)].q

\* q + 1 or q: q rounded up when the remainder compares as c to one half
BRoundUp[q \in Limbs, c \in Int] ==
    IF c > 0 \/ (c = 0 /\ q # <<>> /\ q[1] % 2 = 1) THEN BAddC[q, <<>>, 1] ELSE q

BRoundCut[m \in Limbs, sh \in Nat, q \in Limbs] ==
    BRoundUp[q, BCmp[BSub[m, BShl[q, sh]], BShl[<<1>>, sh - 1]]]

\* the integer nearest to m / 2^sh, ties to even, for sh > 0
BRoundShr[m \in Limbs, sh \in Nat] == BRoundCut[m, sh, BShr[m, sh]]

QuotRem == [q : Limbs, r : Limbs]

\* One quotient limb of long division (Knuth's algorithm D): cur < d * Base,
\* d has at least two limbs and its top limb is at least Base / 2, so the
\* estimate from the top limbs is at most 2 too large.
BDivEstimate[cur \in Limbs, d \in Limbs] ==
    Min(Base - 1,
        ((IF Len(cur) > Len(d) THEN cur[Len(d) + 1] ELSE 0) * Base + cur[Len(d)])
            \div d[Len(d)])

BDivCorrect[cur \in Limbs, d \in Limbs, est \in Nat] ==
    IF BCmp[BMulSmall[d, est], cur] <= 0 THEN est
    ELSE IF BCmp[BMulSmall[d, est - 1], cur] <= 0 THEN est - 1
    ELSE est - 2

BDivDigit[cur \in Limbs, d \in Limbs] ==
    IF BCmp[cur, d] < 0 THEN 0 ELSE BDivCorrect[cur, d, BDivEstimate[cur, d]]

BDivRem[q \in Limbs, cur \in Limbs, d \in Limbs, dig \in Nat] ==
    [q |-> <<dig>> \o q, r |-> BSub[cur, BMulSmall[d, dig]]]

\* one step of the long division: the next limb of n is brought down
BDivStep[acc \in QuotRem, limb \in Nat, d \in Limbs] ==
    BDivRem[acc.q, BNorm[<<limb>> \o acc.r], d, BDivDigit[BNorm[<<limb>> \o acc.r], d]]

BDivLimbs[n \in Limbs, d \in Limbs, i \in Nat, acc \in QuotRem] ==
    IF i = 0 THEN [q |-> BNorm[acc.q], r |-> acc.r]
    ELSE BDivLimbs[n, d, i - 1, BDivStep[acc, n[i], d]]

BDivUnshift[res \in QuotRem, sh \in Nat] == [q |-> res.q, r |-> BShr[res.r, sh]]

BDivShifted[n \in Limbs, d \in Limbs, sh \in Nat] ==
    BDivUnshift[BDivLimbs[n, d, Len(n), [q |-> <<>>, r |-> <<>>]], sh]

SmallQuotRem == [q : Limbs, r : Nat]

BDivBySmall[s \in SmallQuotRem] == [q |-> s.q, r |-> BFromInt[s.r]]

\* quotient and remainder (both bignums) of n by d > 0
BDivMod[n \in Limbs, d \in Limbs] ==
    IF Len(d) = 1 THEN BDivBySmall[BDivSmall[n, d[1]]]
    ELSE BDivShifted[BShl[n, 15 - IntBits[d[Len(d)]]], BShl[d, 15 - IntBits[d[Len(d)]]],
                     15 - IntBits[d[Len(d)]]]

(***************************************************************************)
(* float64 values: [neg, m, e] stands for (-1)^neg * m * 2^e with m an odd *)
(* bignum of at most 53 bits, or zero.  Each operation computes the exact  *)
(* result and rounds it to nearest, ties to even, as IEEE-754 does.  The   *)
(* exponent range is not modelled (no balance comes near it), nor is the   *)
(* sign of zero.                                                           *)
(***************************************************************************)
Float == [neg : BOOLEAN, m : Limbs, e : Int]

FZero == [neg |-> FALSE, m |-> <<>>, e |-> 0]

IntTrailingZeros[d \in Nat] == IF d % 2 = 1 THEN 0 ELSE 1 + IntTrailingZeros[d \div 2]

FStripBits[m \in Limbs, e \in Int, t \in Nat] == [m |-> BShr[m, t], e |-> e + t]

\* m * 2^e with m made odd
FStrip[m \in Limbs, e \in Int] ==
    IF m = <<>> THEN [m |-> m, e |-> 0]
    ELSE IF Head(m) = 0 THEN FStrip[Tail(m), e + 15]
    ELSE FStripBits[m, e, IntTrailingZeros[Head(m)]]

Stripped == [m : Limbs, e : Int]

FMakeStripped[neg \in BOOLEAN, s \in Stripped] ==
    IF s.m = <<>> THEN FZero ELSE [neg |-> neg, m |-> s.m, e |-> s.e]

FMake[neg \in BOOLEAN, m \in Limbs, e \in Int] == FMakeStripped[neg, FStrip[m, e]]

\* the double nearest to (-1)^neg * m * 2^e, ties to even
FRound[neg \in BOOLEAN, m \in Limbs, e \in Int] ==
    IF BBitLen[m] <= 53 THEN FMake[neg, m, e]
    ELSE FMake[neg, BRoundShr[m, BBitLen[m] - 53], e + BBitLen[m] - 53]

FromInt[n \in Int] == FMake[n < 0, BFromInt[IF n < 0 THEN -n ELSE n], 0]

FNeg[x \in Float] == IF x.m = <<>> THEN x ELSE [x EXCEPT !.neg = ~x.neg]

FAbs[x \in Float] == IF x.m = <<>> THEN x ELSE [x EXCEPT !.neg = FALSE]

\* the sum of two numbers of different signs with magnitudes a and b times
\* 2^e, which compare as c
FAddOpposite[xneg \in BOOLEAN, a \in Limbs, yneg \in BOOLEAN, b \in Limbs, e \in Int, c \in Int] ==
    IF c = 0 THEN FZero
    ELSE IF c > 0 THEN FRound[xneg, BSub[a, b], e]
    ELSE FRound[yneg, BSub[b, a], e]

FAddAligned[xneg \in BOOLEAN, a \in Limbs, yneg \in BOOLEAN, b \in Limbs, e \in Int] ==
    IF xneg = yneg THEN FRound[xneg, BAdd[a, b], e]
    ELSE FAddOpposite[xneg, a, yneg, b, e, BCmp[a, b]]

FAdd[x \in Float, y \in Float] ==
    IF x.m = <<>> THEN y
    ELSE IF y.m = <<>> THEN x
    ELSE FAddAligned[x.neg, BShl[x.m, x.e - Min(x.e, y.e)],
                     y.neg, BShl[y.m, y.e - Min(x.e, y.e)], Min(x.e, y.e)]

FSub[x \in Float, y \in Float] == FAdd[x, FNeg[y]]

FMul[x \in Float, y \in Float] ==
    IF x.m = <<>> \/ y.m = <<>> THEN FZero
    ELSE FRound[x.neg # y.neg, BMul[x.m, y.m], x.e + y.e]

\* the quotient d.q with a sticky bit for the remainder d.r, rounded
FDivSticky[neg \in BOOLEAN, d \in QuotRem, e \in Int] ==
    FRound[neg, BAddC[d.q, d.q, IF d.r = <<>> THEN 0 ELSE 1], e]

FDivShifted[x \in Float, y \in Float, k \in Nat] ==
    FDivSticky[x.neg # y.neg, BDivMod[BShl[x.m, k], y.m], x.e - y.e - k - 1]

\* x / y for y # 0: the quotient to at least 54 bits, a sticky bit, rounded
FDiv[x \in Float, y \in Float] ==
    IF x.m = <<>> THEN FZero
    ELSE FDivShifted[x, y, IF 55 + BBitLen[y.m] - BBitLen[x.m] > 0
                           THEN 55 + BBitLen[y.m] - BBitLen[x.m] ELSE 0]

FCmpMagnitude[x \in Float, y \in Float, e \in Int] ==
    BCmp[BShl[x.m, x.e - e], BShl[y.m, y.e - e]]

\* -1, 0 or 1 as x < y, x = y, x > y
FCmp[x \in Float, y \in Float] ==
    IF x.m = <<>> /\ y.m = <<>> THEN 0
    ELSE IF x.m = <<>> THEN (IF y.neg THEN 1 ELSE -1)
    ELSE IF y.m = <<>> THEN (IF x.neg THEN -1 ELSE 1)
    ELSE IF x.neg # y.neg THEN (IF x.neg THEN -1 ELSE 1)
    ELSE IF x.neg THEN -FCmpMagnitude[x, y, Min(x.e, y.e)]
    ELSE FCmpMagnitude[x, y, Min(x.e, y.e)]

FFloorOf[neg \in BOOLEAN, d \in QuotRem] ==
    FRound[neg, IF neg /\ d.r # <<>> THEN BAddC[d.q, <<>>, 1] ELSE d.q, 0]

\* x // y for y # 0: the floor of the exact quotient
FFloorDiv[x \in Float, y \in Float] ==
    IF x.m = <<>> THEN FZero
    ELSE FFloorOf[x.neg # y.neg,
                  BDivMod[BShl[x.m, x.e - Min(x.e, y.e)], BShl[y.m, y.e - Min(x.e, y.e)]]]

FRintMagnitude[x \in Float] ==
    IF x.e >= 0 THEN BToInt[BShl[x.m, x.e]] ELSE BToInt[BRoundShr[x.m, -x.e]]

\* rint(x) as an integer: the nearest integer, ties to even
FRint[x \in Float] ==
    IF x.m = <<>> THEN 0
    ELSE IF x.neg THEN -FRintMagnitude[x] ELSE FRintMagnitude[x]

(***************************************************************************)
(* Values the calls are made with.  A wealth dict is [numpy, items]: items *)
(* is the sequence of its items in insertion order, each [p |-> person,    *)
(* c |-> cents], and numpy tells whether the values are numpy.float64 (as  *)
(* every phase of a sale stores them) or plain Python numbers (as a caller *)
(* may pass them).  A parameter is the float64 nearest to num/den, as the  *)
(* literal would be.                                                       *)
(***************************************************************************)
MaxRounds == 2

People == <<"A", "B", "C">>

Balances == {-5000, 0, 5000, 15000}

Rational == [num : Int, den : Int]

Rat(num, den) == [num |-> num, den |-> den]

\* the parameter settings of __init__: its defaults, a tax, and all four at once
Settings ==
    { [win_percentage |-> Rat(1, 2), chi |-> Rat(0, 1), zeta |-> Rat(0, 1), kappa |-> Rat(0, 1)],
      [win_percentage |-> Rat(1, 2), chi |-> Rat(1, 10), zeta |-> Rat(0, 1), kappa |-> Rat(0, 1)],
      [win_percentage |-> Rat(1, 1), chi |-> Rat(1, 10), zeta |-> Rat(1, 10), kappa |-> Rat(1, 1)] }

\* the values of n and of plot_n the calls are made with
Rounds == {1, 2}

PlotEvery == {1, 2, 3}

ToFloat[r \in Rational] == FDiv[FromInt[r.num], FromInt[r.den]]

\* the float64 a balance of c cents is stored as: c / 100
Cents[c \in Int] == FDiv[FromInt[c], FromInt[100]]

\* x.round(2) of numpy: rint(x * 100) / 100, kept as the number of cents
Round2[x \in Float] == FRint[FMul[x, FromInt[100]]]

Val(item) == Cents[item.c]

Keys(d) == [i \in 1..Len(d) |-> d[i].p]

RECURSIVE FSumFrom(_, _, _)
FSumFrom(d, i, acc) ==
    IF i > Len(d) THEN acc ELSE FSumFrom(d, i + 1, FAdd[acc, Val(d[i])])

\* np.sum(list(d.values())): the items added left to right
NpSum(d) == FSumFrom(d, 1, FZero)

RECURSIVE TotalCents(_)
TotalCents(d) == IF d = <<>> THEN 0 ELSE Head(d).c + TotalCents(Tail(d))

Lookup(d, person) == (CHOOSE i \in 1..Len(d) : d[i].p = person)

\* a dict as the mapping it is: the order of insertion does not count in ==
AsMap(d) == [person \in {d[i].p : i \in 1..Len(d)} |-> d[Lookup(d, person)].c]

(***************************************************************************)
(* Wealth: the ledger.                                                     *)
(***************************************************************************)
\* _validate_wealth without the test of the number of people being even
ValidateNotEmpty(wealth) ==
    IF ~wealth.isdict THEN "start_wealth needs to be a dictionary"
    ELSE IF Len(wealth.items) = 0 THEN "start_wealth needs an even number of people"
    ELSE "ok"

\* Wealth._validate_wealth: the message of the exception raised, or "ok"
_validate_wealth(wealth) ==
    IF ~wealth.isdict THEN "start_wealth needs to be a dictionary"
    ELSE IF Len(wealth.items) % 2 # 0 \/ Len(wealth.items) = 0
         THEN "start_wealth needs an even number of people"
    ELSE "ok"

(***************************************************************************)
(* ExtendedYardSale: the phases of one sale.  Each phase builds a new dict *)
(* and binds self.wealth to it.  st = [heap, ref, pinned]: the dict        *)
(* objects, the one self.wealth is bound to, and the ones a snapshot dict  *)
(* refers to; a dict nothing refers to any more is freed.                  *)
(***************************************************************************)
FreshId(h) == CHOOSE id \in 1..(Cardinality(DOMAIN h) + 1) : id \notin DOMAIN h

RebindTo(st, d, id) ==
    [st EXCEPT !.heap = [x \in (DOMAIN st.heap \cap st.pinned) \cup {id} |->
                            IF x = id THEN [numpy |-> TRUE, items |-> d] ELSE st.heap[x]],
               !.ref  = id]

\* self.wealth = <a new dict of numpy.float64 values>
Rebind(st, d) == RebindTo(st, d, FreshId(st.heap))

\* np.mean(list(self.wealth.values()))
_update_average_wealth(d) == FDiv[NpSum(d), FromInt[Len(d)]]

\* w > self._avg_wealth
IsRich(item, avg) == FCmp[Val(item), avg] > 0

\* tax = chi * np.sum(rich values); tax = (tax // 0.01) / 100
TaxOf(rich, chi) ==
    FDiv[FFloorDiv[FMul[chi, NpSum(rich)], ToFloat[Rat(1, 100)]], FromInt[100]]

\* poor = {p: (w + per_person_subsidy).round(2) ...} if there is a poor person
Subsidise(poor, tax) ==
    [i \in 1..Len(poor) |->
        [p |-> poor[i].p, c |-> Round2[FAdd[Val(poor[i]), FDiv[tax, FromInt[Len(poor)]]]]]]

\* rich = {p: (w - (w * self.chi)).round(2) ...}
TaxRich(rich, chi) ==
    [i \in 1..Len(rich) |->
        [p |-> rich[i].p, c |-> Round2[FSub[Val(rich[i]), FMul[Val(rich[i]), chi]]]]]

\* {**rich, **poor}
PayTaxParts(rich, poor, chi) == TaxRich(rich, chi) \o Subsidise(poor, TaxOf(rich, chi))

\* the dict _pay_tax builds from the dict d
PayTaxDict(d, avg, chi) ==
    PayTaxParts(SelectSeq(d, LAMBDA it : IsRich(it, avg)),
                SelectSeq(d, LAMBDA it : ~IsRich(it, avg)), chi)

\* what .round(2) raises on a plain Python number, which has no such method
AttributeError == "AttributeError: object has no attribute 'round'"

\* w - (w * self.chi) of a rich person is a plain Python number when w is
\* one; w + per_person_subsidy of a poor person is a numpy.float64 always
TaxRaises(obj, avg) ==
    ~obj.numpy /\ \E i \in 1..Len(obj.items) : IsRich(obj.items[i], avg)

\* _pay_tax with self.wealth changed where it is, instead of bound anew
PayTaxInPlace(st, avg, chi) ==
    IF TaxRaises(st.heap[st.ref], avg) THEN [raised |-> AttributeError, st |-> st]
    ELSE [raised |-> "none",
          st |-> [st EXCEPT !.heap[st.ref] =
                     [numpy |-> TRUE, items |-> PayTaxDict(st.heap[st.ref].items, avg, chi)]]]

\* _pay_tax: [raised, st], st left as it was when .round(2) raises
_pay_tax(st, avg, chi) ==
    IF TaxRaises(st.heap[st.ref], avg) THEN [raised |-> AttributeError, st |-> st]
    ELSE [raised |-> "none", st |-> Rebind(st, PayTaxDict(st.heap[st.ref].items, avg, chi))]

LoanSDict(d, avg, kappa) ==
    [i \in 1..Len(d) |-> [p |-> d[i].p, c |-> Round2[FAdd[Val(d[i]), FMul[kappa, avg]]]]]

_loan_S(st, avg, kappa) == Rebind(st, LoanSDict(st.heap[st.ref].items, avg, kappa))

CollectSDict(d, avg, kappa) ==
    [i \in 1..Len(d) |-> [p |-> d[i].p, c |-> Round2[FSub[Val(d[i]), FMul[kappa, avg]]]]]

_collect_S(st, avg, kappa) == Rebind(st, CollectSDict(st.heap[st.ref].items, avg, kappa))

\* random.sample(people, self._n_people), whatever the generator holds: the
\* people in any order
SampleOrders(people) ==
    { [i \in 1..Len(people) |-> people[f[i]]] :
        f \in {g \in [1..Len(people) -> 1..Len(people)] :
                 \A i, j \in 1..Len(people) : g[i] = g[j] => i = j} }

\* _pair_people for the order drawn: the list of two-item dicts
_pair_people(d, pair_ids) ==
    [k \in 1..(Len(d) \div 2) |->
        << d[Lookup(d, pair_ids[2 * k - 1])], d[Lookup(d, pair_ids[2 * k])] >>]

\* weights = [(0.5 + bias) / (1 + bias), 0.5 / (1 + bias)]
WeightsFor(bias) ==
    << FDiv[FAdd[ToFloat[Rat(1, 2)], bias], FAdd[FromInt[1], bias]],
       FDiv[ToFloat[Rat(1, 2)], FAdd[FromInt[1], bias]] >>

\* the weights _roll_dice gives random.choices for one pair
Weights(pair, zeta) == WeightsFor(FMul[zeta, FAbs[FSub[Val(pair[1]), Val(pair[2])]]])

\* The rolls random.choices([0, 1], weights) can return, whatever the
\* generator holds: it returns 0 when random() * total < weights[0], else 1,
\* with random() in [0, 1).
RollsFor(w) ==
    {r \in {0, 1} : IF r = 0 THEN FCmp[w[1], FZero] > 0
                    ELSE FCmp[FAdd[w[1], w[2]], w[1]] > 0}

PossibleRolls(pair, zeta) == RollsFor(Weights(pair, zeta))

RollLists(possible) ==
    {rolls \in [DOMAIN possible -> {0, 1}] : \A k \in DOMAIN possible : rolls[k] \in possible[k]}

\* _roll_dice: the lists of rolls it can return for the pairs
_roll_dice(pair_wealths, zeta) ==
    RollLists([k \in 1..Len(pair_wealths) |-> PossibleRolls(pair_wealths[k], zeta)])

\* min(pair_values), and the poor and the rich of a pair: the first and the
\* second person when the two are level, else min and max by wealth
MinValue(pair) == IF FCmp[Val(pair[2]), Val(pair[1])] < 0 THEN Val(pair[2]) ELSE Val(pair[1])

PoorOf(pair) == IF FCmp[Val(pair[2]), Val(pair[1])] < 0 THEN pair[2] ELSE pair[1]

RichOf(pair) == IF FCmp[Val(pair[2]), Val(pair[1])] < 0 THEN pair[1] ELSE pair[2]

ExchangeBetween(poor, rich, roll, exchange_amount) ==
    << [p |-> poor.p,
        c |-> Round2[FAdd[Val(poor), FMul[FromInt[2 * roll - 1], exchange_amount]]]],
       [p |-> rich.p,
        c |-> Round2[FAdd[Val(rich), FMul[FromInt[1 - 2 * roll], exchange_amount]]]] >>

\* _exchange_wealth for one pair: the two items it stores, poor first
ExchangePair(pair, roll, win_percentage) ==
    ExchangeBetween(PoorOf(pair), RichOf(pair), roll, FMul[MinValue(pair), win_percentage])

RECURSIVE ExchangeDict(_, _, _)
ExchangeDict(pairs, rolls, win_percentage) ==
    IF pairs = <<>> THEN <<>>
    ELSE ExchangePair(Head(pairs), Head(rolls), win_percentage)
         \o ExchangeDict(Tail(pairs), Tail(rolls), win_percentage)

_exchange_wealth(st, wealth_permutation, dice_rolls, win_percentage) ==
    Rebind(st, ExchangeDict(wealth_permutation, dice_rolls, win_percentage))

(***************************************************************************)
(* The generator of the random module, which random.seed, random.sample    *)
(* and random.choices all use: one Mersenne Twister for the process.  Its  *)
(* state is [seed, pos]: the seed it was last seeded with and the number   *)
(* of 32-bit outputs drawn since.  MTOutputs lists the first outputs after *)
(* random.seed(0) and random.seed(1), each as <<upper, lower>> 16 bits.    *)
(***************************************************************************)
Seeds == {0, 1}

MTOutputs ==
    << << <<55340, 1997>>, <<25247, 28606>>, <<49673, 19628>>, <<58343, 1666>>,
          <<27562, 37973>>, <<2653, 12084>>, <<16968, 24122>>, <<63272, 46330>>,
          <<33506, 58978>>, <<31845, 49637>>, <<26537, 50040>>, <<60177, 26547>>,
          <<51367, 1593>>, <<54385, 15712>>, <<19877, 59145>>, <<63425, 48519>>,
          <<31234, 16900>>, <<23465, 8111>>, <<38232, 34431>>, <<58435, 57208>>,
          <<59514, 5651>>, <<14315, 56537>>, <<33075, 10358>>, <<9127, 28954>>,
          <<18470, 34419>>, <<9158, 24879>>, <<49532, 25209>>, <<6214, 54308>>,
          <<40525, 28220>>, <<52389, 42401>>, <<16417, 12023>>, <<64701, 1219>>,
          <<59621, 8554>>, <<34902, 5906>>, <<64407, 54325>>, <<46214, 11041>>,
          <<53098, 26014>>, <<39446, 16646>>, <<59124, 22795>>, <<9631, 17193>>,
          <<20325, 54489>>, <<6472, 36332>>, <<47830, 16635>>, <<4832, 51378>>,
          <<58906, 17436>>, <<55736, 42772>>, <<44825, 37418>>, <<21639, 52766>> >>,
       << <<8805, 45557>>, <<37303, 22602>>, <<55537, 27359>>, <<52577, 15920>>,
          <<50054, 48068>>, <<4135, 50385>>, <<16716, 13372>>, <<7727, 60297>>,
          <<32468, 54651>>, <<49870, 28484>>, <<29457, 55459>>, <<30949, 4193>>,
          <<42702, 52251>>, <<24878, 30358>>, <<51689, 50710>>, <<13759, 39213>>,
          <<6151, 11916>>, <<31972, 11394>>, <<1857, 51112>>, <<58544, 27878>>,
          <<54772, 46002>>, <<25546, 33421>>, <<28361, 53894>>, <<39809, 3702>>,
          <<49956, 51589>>, <<50276, 29017>>, <<138, 1446>>, <<45602, 6744>>,
          <<29188, 58669>>, <<17454, 15683>>, <<47286, 55550>>, <<52548, 32309>>,
          <<14992, 10545>>, <<38741, 54465>>, <<61949, 17058>>, <<6699, 36639>>,
          <<59075, 62265>>, <<20803, 4499>>, <<2004, 48860>>, <<1462, 59107>>,
          <<1667, 40633>>, <<42568, 42973>>, <<35482, 542>>, <<603, 16703>>,
          <<61548, 5194>>, <<57752, 35545>>, <<24982, 39375>>, <<44989, 26617>> >> >>

\* random.seed(seed)
Seeded(seed) == [seed |-> seed, pos |-> 0]

\* the outputs left in the part of the stream that is listed
OutputsLeft(gen) == Len(MTOutputs[gen.seed + 1]) - gen.pos

\* the next 32-bit output, and the generator after it
NextOutput(gen) == MTOutputs[gen.seed + 1][gen.pos + 1]

Advance(gen) == [gen EXCEPT !.pos = @ + 1]

\* getrandbits(k) for k <= 16: the top k bits of one output
GetRandBits(gen, k) == [value |-> NextOutput(gen)[1] \div 2^(16 - k), gen |-> Advance(gen)]

\* _randbelow(n): getrandbits(n.bit_length()) until the value is below n
RECURSIVE RandBelow(_, _)
RandBelow(gen, n) ==
    IF GetRandBits(gen, IntBits[n]).value < n THEN GetRandBits(gen, IntBits[n])
    ELSE RandBelow(Advance(gen), n)

\* random.sample(population, k = n) for a short population: i are chosen,
\* result[i] = pool[j]; pool[j] = pool[n - i - 1] for j = _randbelow(n - i)
RECURSIVE Sample(_, _, _)
SamplePick(draw, pool, result) ==
    Sample(draw.gen,
           [pool EXCEPT ![draw.value + 1] = pool[Len(pool) - Len(result)]],
           Append(result, pool[draw.value + 1]))

Sample(gen, pool, result) ==
    IF Len(result) = Len(pool) THEN [value |-> result, gen |-> gen]
    ELSE SamplePick(RandBelow(gen, Len(pool) - Len(result)), pool, result)

\* random(): (a >> 5) * 2^26 + (b >> 6) over 2^53 for two outputs a, b
RandomOf(a, b, gen) ==
    [value |-> FRound[FALSE,
                      BAdd[BMul[BFromInt[a[1] * 2^11 + a[2] \div 2^5], BFromInt[2^26]],
                           BFromInt[b[1] * 2^10 + b[2] \div 2^6]],
                      -53],
     gen |-> gen]

Random(gen) == RandomOf(NextOutput(gen), NextOutput(Advance(gen)), Advance(Advance(gen)))

\* random.choices([0, 1], weights)[0]: bisect(cum_weights, random() * total, 0, 1)
ChoiceAt(draw, weights) ==
    [value |-> IF FCmp[FMul[draw.value, FAdd[weights[1], weights[2]]], weights[1]] < 0
               THEN 0 ELSE 1,
     gen |-> draw.gen]

Choices(gen, weights) == ChoiceAt(Random(gen), weights)

\* _roll_dice with the generator gen: one random.choices for each pair in turn
RECURSIVE RollDiceFrom(_, _, _, _)
RollNext(draw, pair_wealths, zeta, dice_rolls) ==
    RollDiceFrom(draw.gen, pair_wealths, zeta, Append(dice_rolls, draw.value))

RollDiceFrom(gen, pair_wealths, zeta, dice_rolls) ==
    IF Len(dice_rolls) = Len(pair_wealths) THEN [value |-> dice_rolls, gen |-> gen]
    ELSE RollNext(Choices(gen, Weights(pair_wealths[Len(dice_rolls) + 1], zeta)),
                  pair_wealths, zeta, dice_rolls)

\* perform_sale on the dict d with the generator gen, from its last line
\* back to its first: [wealth, gen]
SeededCollect(exchanged, avg, kappa, gen) ==
    [wealth |-> CollectSDict(exchanged, avg, kappa), gen |-> gen]

SeededExchange(pair_wealths, rolled, avg, engine) ==
    SeededCollect(ExchangeDict(pair_wealths, rolled.value, engine.win_percentage),
                  avg, engine.kappa, rolled.gen)

SeededRoll(pair_wealths, gen, avg, engine) ==
    SeededExchange(pair_wealths, RollDiceFrom(gen, pair_wealths, engine.zeta, <<>>), avg, engine)

SeededPair(lent, sampled, avg, engine) ==
    SeededRoll(_pair_people(lent, sampled.value), sampled.gen, avg, engine)

SeededLoan(lent, gen, avg, engine) ==
    SeededPair(lent, Sample(gen, Keys(lent), <<>>), avg, engine)

SeededTax(d, gen, avg, engine) ==
    SeededLoan(LoanSDict(PayTaxDict(d, avg, engine.chi), avg, engine.kappa), gen, avg, engine)

SeededSale(engine, gen) ==
    SeededTax(engine.wealth, gen, _update_average_wealth(engine.wealth), engine)

(***************************************************************************)
(* Wealth.sort_wealth, calc_gini and plot_lorenz_curve.  A float64 result  *)
(* that may be a division by zero is [kind, v]: numpy divides by zero      *)
(* without raising and gives nan (0/0) or an infinity.                     *)
(***************************************************************************)
RECURSIVE InsertSorted(_, _)
InsertSorted(c, sorted) ==
    IF sorted = <<>> THEN <<c>>
    ELSE IF FCmp[Cents[c], Cents[Head(sorted)]] <= 0 THEN <<c>> \o sorted
    ELSE <<Head(sorted)>> \o InsertSorted(c, Tail(sorted))

RECURSIVE SortFrom(_, _)
SortFrom(d, i) == IF i > Len(d) THEN <<>> ELSE InsertSorted(d[i].c, SortFrom(d, i + 1))

\* np.sort(list(self.wealth.values())): the balances ascending, in cents
sort_wealth(d) == SortFrom(d, 1)

NpDivide[x \in Float, y \in Float] ==
    IF y.m # <<>> THEN [kind |-> "finite", v |-> FDiv[x, y]]
    ELSE IF x.m = <<>> THEN [kind |-> "nan", v |-> FZero]
    ELSE [kind |-> IF x.neg THEN "-inf" ELSE "inf", v |-> FZero]

RECURSIVE WeightedSumFrom(_, _, _)
WeightedSumFrom(sorted, i, acc) ==
    IF i > Len(sorted) THEN acc
    ELSE WeightedSumFrom(sorted, i + 1, FAdd[acc, FMul[FromInt[i], Cents[sorted[i]]]])

RECURSIVE CumSum(_, _, _)
CumSum(sorted, i, acc) ==
    IF i > Len(sorted) THEN <<>>
    ELSE <<FAdd[acc, Cents[sorted[i]]]>> \o CumSum(sorted, i + 1, FAdd[acc, Cents[sorted[i]]])

RECURSIVE SortedSumFrom(_, _, _)
SortedSumFrom(sorted, i, acc) ==
    IF i > Len(sorted) THEN acc ELSE SortedSumFrom(sorted, i + 1, FAdd[acc, Cents[sorted[i]]])

\* np.sum(sorted_wealth): an array of fewer than 8 values is added left to right
SortedSum(sorted) == SortedSumFrom(sorted, 1, FZero)

GiniShift(quot, const) ==
    IF quot.kind = "finite" THEN [kind |-> "finite", v |-> FSub[quot.v, const]] ELSE quot

GiniOfSorted(sorted_wealth, n) ==
    GiniShift(NpDivide[FMul[FDiv[FromInt[2], FromInt[n]], WeightedSumFrom(sorted_wealth, 1, FZero)],
                       SortedSum(sorted_wealth)],
              FDiv[FromInt[n + 1], FromInt[n]])

\* calc_gini with a guard that returns 0 for a total of zero
GiniGuarded(d) ==
    IF SortedSum(sort_wealth(d)).m = <<>> THEN [kind |-> "finite", v |-> FZero]
    ELSE GiniOfSorted(sort_wealth(d), Len(d))

\* calc_gini: coef * weighted_sum / np.sum(sorted_wealth) - const
gini(d) == GiniOfSorted(sort_wealth(d), Len(d))

\* np.insert(np.cumsum(sorted_wealth) / np.sum(sorted_wealth), 0, 0)
wealth_values_lorenz(cs, total) ==
    <<[kind |-> "finite", v |-> FZero]>> \o [i \in 1..Len(cs) |-> NpDivide[cs[i], total]]

\* np.arange(size) / (size - 1) beside wealth_values_lorenz
LorenzRows(lorenz) ==
    [i \in 1..Len(lorenz) |->
        [x |-> FDiv[FromInt[i - 1], FromInt[Len(lorenz) - 1]], y |-> lorenz[i]]]

\* the rows without the point np.insert puts in front
LorenzNoOrigin(sorted_wealth) ==
    LorenzRows([i \in 1..Len(sorted_wealth) |->
                  NpDivide[CumSum(sorted_wealth, 1, FZero)[i], SortedSum(sorted_wealth)]])

LorenzOfSorted(sorted_wealth) ==
    LorenzRows(wealth_values_lorenz(CumSum(sorted_wealth, 1, FZero), SortedSum(sorted_wealth)))

\* plot_lorenz_curve: the rows x, y of wealth_df
wealth_df(d) == LorenzOfSorted(sort_wealth(d))

(***************************************************************************)
(* State.                                                                  *)
(*   self       the ExtendedYardSale object, if one was constructed        *)
(*   heap       the dict objects that are still referenced                 *)
(*   frame      the activation of run_yard_sale, between two rounds        *)
(*   yard_sale  the snapshot dict of run_yard_sale (round -> dict object): *)
(*              its local while it runs, then what the caller got back     *)
(*   ret        the last call: its arguments, what it returned or raised   *)
(*   hist       history: the items start_wealth had, the wealth before the *)
(*              last sale and after its tax phase, the wealth after each   *)
(*              round of the last run, the numbers of sales begun and of   *)
(*              random draws made so far                                   *)
(*   engines    two ExtendedYardSale objects of one process                *)
(*   generator  the generator of the random module of that process         *)
(* Spec is one object and the calls made on it: a construction, then sales *)
(* and runs, then one call of calc_gini or plot_lorenz_curve; a draw gives *)
(* any value it can give for some state of the generator.  SpecShared is   *)
(* two objects and the generator they draw from, output by output.         *)
(***************************************************************************)
VARIABLES self, heap, frame, yard_sale, ret, hist, engines, generator

vars == <<self, heap, frame, yard_sale, ret, hist, engines, generator>>

NoObject ==
    [exists |-> FALSE, wealth |-> 0, win_percentage |-> FZero, chi |-> FZero,
     zeta |-> FZero, kappa |-> FZero, n |-> 0, n_people |-> 0,
     has_avg |-> FALSE, avg_wealth |-> FZero]

Idle == [pc |-> "idle", i |-> 0, plot |-> FALSE, plot_n |-> 0]

Returned(op, args, value) == [op |-> op, args |-> args, raised |-> "none", value |-> value]

\* what a call returns is a record: None, a float64 [kind, v], or a container
None == [kind |-> "None"]

\* the arguments of a call that takes none
NoArgs == [count |-> 0]

Raised(op, args, message) == [op |-> op, args |-> args, raised |-> message, value |-> None]

Queries == {"calc_gini", "plot_lorenz_curve"}

\* the dict objects a snapshot dict refers to
Refs(snaps) == {snaps[k] : k \in DOMAIN snaps}

\* the items of the dict a reference stands for
Deref(id) == heap[id].items

\* the start_wealth arguments: not a dict, empty, one, two and three people
StartWealths ==
    {[isdict |-> FALSE, numpy |-> FALSE, items |-> <<>>]}
    \cup {[isdict |-> TRUE, numpy |-> FALSE, items |-> <<>>]}
    \cup {[isdict |-> TRUE, numpy |-> FALSE, items |-> <<[p |-> People[1], c |-> a]>>] :
            a \in Balances}
    \cup {[isdict |-> TRUE, numpy |-> t,
           items |-> <<[p |-> People[1], c |-> a], [p |-> People[2], c |-> b]>>] :
            a \in Balances, b \in Balances, t \in BOOLEAN}
    \cup {[isdict |-> TRUE, numpy |-> FALSE,
           items |-> <<[p |-> People[1], c |-> a], [p |-> People[2], c |-> a],
                       [p |-> People[3], c |-> a]>>] : a \in Balances}

\* the calls of run_yard_sale
RunCalls ==
    {[plot_n |-> k, plot |-> TRUE] : k \in PlotEvery} \cup {[plot_n |-> 1, plot |-> FALSE]}

NoEngine ==
    [exists |-> FALSE, wealth |-> <<>>, win_percentage |-> FZero, chi |-> FZero,
     zeta |-> FZero, kappa |-> FZero, seed |-> 0, start |-> <<>>, sales |-> 0]

Init ==
    /\ self = NoObject
    /\ heap = <<>>
    /\ frame = Idle
    /\ yard_sale = <<>>
    /\ ret = Returned("none", NoArgs, None)
    /\ hist = [start |-> <<>>, before |-> <<>>, taxed |-> <<>>, log |-> <<>>,
               sales |-> 0, draws |-> 0]
    /\ engines = <<NoEngine, NoEngine>>
    /\ generator = Seeded(0)

\* ExtendedYardSale.__init__ (Wealth.__init__ first)
__init__(start_wealth, setting, n) ==
    /\ ~self.exists
    /\ IF _validate_wealth(start_wealth) # "ok"
       THEN /\ ret' = Raised("__init__", start_wealth, _validate_wealth(start_wealth))
            /\ UNCHANGED <<self, heap, hist>>
       ELSE /\ self' = [exists |-> TRUE, wealth |-> 1,
                        win_percentage |-> ToFloat[setting.win_percentage],
                        chi |-> ToFloat[setting.chi], zeta |-> ToFloat[setting.zeta],
                        kappa |-> ToFloat[setting.kappa], n |-> n,
                        n_people |-> Len(start_wealth.items),
                        has_avg |-> FALSE, avg_wealth |-> FZero]
            /\ heap' = [id \in {1} |->
                          [numpy |-> start_wealth.numpy, items |-> start_wealth.items]]
            /\ hist' = [hist EXCEPT !.start = start_wealth.items]
            /\ ret' = Returned("__init__", start_wealth, None)
    /\ UNCHANGED <<frame, yard_sale, engines, generator>>

\* perform_sale, line by line.  Each operator below is the rest of the sale
\* from one line on, given the values of the lines before it: the set of ways
\* the sale can end, one for each order random.sample can draw and each list
\* of rolls random.choices can return.
SaleFromCollect(exchanged, avg, taxed, pairs) ==
    [st     |-> _collect_S(exchanged, avg, self.kappa),
     avg    |-> avg,
     raised |-> "none",
     taxed  |-> taxed,
     draws  |-> 1 + Len(pairs)]

SaleFromExchange(lent, avg, taxed, pairs, dice_rolls) ==
    { SaleFromCollect(exchanged, avg, taxed, pairs) :
        exchanged \in {_exchange_wealth(lent, pairs, dice_rolls, self.win_percentage)} }

SaleFromRoll(lent, avg, taxed, pairs) ==
    UNION { SaleFromExchange(lent, avg, taxed, pairs, dice_rolls) :
              dice_rolls \in _roll_dice(pairs, self.zeta) }

SaleFromPairing(lent, avg, taxed) ==
    UNION { SaleFromRoll(lent, avg, taxed, pairs) :
              pairs \in { _pair_people(lent.heap[lent.ref].items, pair_ids) :
                            pair_ids \in SampleOrders(Keys(lent.heap[lent.ref].items)) } }

SaleFromLoan(tax, avg) ==
    IF tax.raised # "none"
    THEN {[st |-> tax.st, avg |-> avg, raised |-> tax.raised, taxed |-> <<>>, draws |-> 0]}
    ELSE UNION { SaleFromPairing(lent, avg, tax.st.heap[tax.st.ref].items) :
                   lent \in {_loan_S(tax.st, avg, self.kappa)} }

SaleFromTax(st, avg) ==
    UNION { SaleFromLoan(tax, avg) : tax \in {_pay_tax(st, avg, self.chi)} }

SaleOutcomes(st) ==
    UNION { SaleFromTax(st, avg) : avg \in {_update_average_wealth(st.heap[st.ref].items)} }

\* perform_sale called by the user
perform_sale ==
    /\ self.exists /\ frame.pc = "idle" /\ ret.op \notin Queries
    /\ hist.sales < MaxRounds
    /\ \E out \in SaleOutcomes([heap |-> heap, ref |-> self.wealth, pinned |-> Refs(yard_sale)]) :
          /\ self' = [self EXCEPT !.wealth = out.st.ref, !.has_avg = TRUE,
                                  !.avg_wealth = out.avg]
          /\ heap' = out.st.heap
          /\ ret' = IF out.raised = "none" THEN Returned("perform_sale", NoArgs, None)
                    ELSE Raised("perform_sale", NoArgs, out.raised)
          /\ hist' = [hist EXCEPT !.before = Deref(self.wealth), !.taxed = out.taxed,
                                  !.sales = @ + 1, !.draws = @ + out.draws]
    /\ UNCHANGED <<frame, yard_sale, engines, generator>>

\* run_yard_sale that goes on to its loop whatever plot_n is
RunUnchecked(plot_n, plot) ==
    /\ self.exists /\ frame.pc = "idle" /\ ret.op \notin Queries
    /\ hist.sales + self.n <= MaxRounds
    /\ frame' = [pc |-> "loop", i |-> 1, plot |-> plot, plot_n |-> plot_n]
    /\ yard_sale' = <<>>
    /\ heap' = [id \in {self.wealth} |-> heap[id]]
    /\ hist' = [hist EXCEPT !.log = <<>>]
    /\ ret' = Returned("none", NoArgs, None)
    /\ UNCHANGED <<self, engines, generator>>

\* run_yard_sale up to its loop: the test of plot_n, then yard_sale = {}
run_yard_sale(plot_n, plot) ==
    /\ self.exists /\ frame.pc = "idle" /\ ret.op \notin Queries
    /\ hist.sales + self.n <= MaxRounds
    /\ IF plot /\ plot_n > self.n
       THEN /\ ret' = Raised("run_yard_sale", [plot_n |-> plot_n, plot |-> plot],
                             "plot_n needs to be lower than n")
            /\ UNCHANGED <<frame, yard_sale, heap, hist>>
       ELSE /\ frame' = [pc |-> "loop", i |-> 1, plot |-> plot, plot_n |-> plot_n]
            /\ yard_sale' = <<>>
            /\ heap' = [id \in {self.wealth} |-> heap[id]]
            /\ hist' = [hist EXCEPT !.log = <<>>]
            /\ ret' = Returned("none", NoArgs, None)
    /\ UNCHANGED <<self, engines, generator>>

\* one iteration of the loop of run_yard_sale: perform_sale, then the
\* snapshot; an exception of perform_sale ends run_yard_sale
RunRound ==
    /\ frame.pc = "loop" /\ frame.i <= self.n
    /\ \E out \in SaleOutcomes([heap |-> heap, ref |-> self.wealth, pinned |-> Refs(yard_sale)]) :
          /\ self' = [self EXCEPT !.wealth = out.st.ref, !.has_avg = TRUE,
                                  !.avg_wealth = out.avg]
          /\ IF out.raised = "none"
             THEN /\ heap' = out.st.heap
                  /\ yard_sale' = IF frame.plot /\ frame.i % frame.plot_n = 0
                                  THEN [k \in DOMAIN yard_sale \cup {frame.i} |->
                                           IF k = frame.i THEN out.st.ref ELSE yard_sale[k]]
                                  ELSE yard_sale
                  /\ hist' = [hist EXCEPT !.before = Deref(self.wealth),
                                          !.taxed  = out.taxed,
                                          !.log    = Append(@, out.st.heap[out.st.ref].items),
                                          !.sales  = @ + 1,
                                          !.draws  = @ + out.draws]
                  /\ frame' = [frame EXCEPT !.i = @ + 1]
                  /\ UNCHANGED ret
             ELSE /\ heap' = [id \in {self.wealth} |-> heap[id]]
                  /\ yard_sale' = <<>>
                  /\ hist' = [hist EXCEPT !.before = Deref(self.wealth), !.taxed = out.taxed,
                                          !.sales = @ + 1]
                  /\ frame' = Idle
                  /\ ret' = Raised("run_yard_sale",
                                   [plot_n |-> frame.plot_n, plot |-> frame.plot], out.raised)
    /\ UNCHANGED <<engines, generator>>

\* the end of run_yard_sale: return yard_sale if plot, else None
RunReturn ==
    /\ frame.pc = "loop" /\ frame.i > self.n
    /\ ret' = IF frame.plot
              THEN Returned("run_yard_sale", [plot_n |-> frame.plot_n, plot |-> frame.plot],
                            [kind |-> "dict", snapshots |-> yard_sale])
              ELSE Returned("run_yard_sale", [plot_n |-> frame.plot_n, plot |-> frame.plot],
                            None)
    /\ frame' = Idle
    /\ UNCHANGED <<self, heap, yard_sale, hist, engines, generator>>

\* calc_gini called by the user
calc_gini ==
    /\ self.exists /\ frame.pc = "idle" /\ ret.op \notin Queries
    /\ ret' = Returned("calc_gini", NoArgs, gini(Deref(self.wealth)))
    /\ UNCHANGED <<self, heap, frame, yard_sale, hist, engines, generator>>

\* plot_lorenz_curve called by the user: the value is the frame it plots
plot_lorenz_curve ==
    /\ self.exists /\ frame.pc = "idle" /\ ret.op \notin Queries
    /\ ret' = Returned("plot_lorenz_curve", NoArgs,
                     [kind |-> "DataFrame", rows |-> wealth_df(Deref(self.wealth))])
    /\ UNCHANGED <<self, heap, frame, yard_sale, hist, engines, generator>>

Next ==
    \/ \E start_wealth \in StartWealths, setting \in Settings, n \in Rounds :
          __init__(start_wealth, setting, n)
    \/ perform_sale
    \/ \E call \in RunCalls : run_yard_sale(call.plot_n, call.plot)
    \/ RunRound
    \/ RunReturn
    \/ calc_gini
    \/ plot_lorenz_curve

Spec == Init /\ [][Next]_vars

(***************************************************************************)
(* Two objects of one process.  Both are given mappings of two people with *)
(* numpy.float64 balances, on which no phase raises.                       *)
(***************************************************************************)
SharedBalances == {5000, 15000}

SharedStarts ==
    { <<[p |-> People[1], c |-> a], [p |-> People[2], c |-> b]>> :
        a \in SharedBalances, b \in SharedBalances }

SharedSettings == {s \in Settings : s.chi = Rat(0, 1) \/ s.kappa = Rat(1, 1)}

\* engines[e] = ExtendedYardSale(start_wealth, ..., seed = seed): __init__
\* ends with random.seed(seed), which seeds the generator of the process
NewEngine(e, start_wealth, setting, seed) ==
    /\ ~engines[e].exists
    /\ engines' = [engines EXCEPT ![e] =
                      [exists |-> TRUE, wealth |-> start_wealth,
                       win_percentage |-> ToFloat[setting.win_percentage],
                       chi |-> ToFloat[setting.chi], zeta |-> ToFloat[setting.zeta],
                       kappa |-> ToFloat[setting.kappa], seed |-> seed,
                       start |-> start_wealth, sales |-> 0]]
    /\ generator' = Seeded(seed)
    /\ UNCHANGED <<self, heap, frame, yard_sale, ret, hist>>

\* the outputs of the listed stream that must be left for a sale to begin
MaxOutputs == 12

\* engines[e].perform_sale(): its draws are the next outputs of the generator
EngineSale(e) ==
    /\ engines[e].exists
    /\ engines[e].sales < MaxRounds
    /\ OutputsLeft(generator) >= MaxOutputs
    /\ \E out \in {SeededSale(engines[e], generator)} :
          /\ engines' = [engines EXCEPT ![e].wealth = out.wealth, ![e].sales = @ + 1]
          /\ generator' = out.gen
    /\ UNCHANGED <<self, heap, frame, yard_sale, ret, hist>>

NextShared ==
    \/ \E e \in {1, 2}, start_wealth \in SharedStarts, setting \in SharedSettings, seed \in Seeds :
          NewEngine(e, start_wealth, setting, seed)
    \/ \E e \in {1, 2} : EngineSale(e)

SpecShared == Init /\ [][NextShared]_vars

(***************************************************************************)
(* The claims.  Sums and reference results are computed on whole cents.    *)
(***************************************************************************)
Abs(x) == IF x < 0 THEN -x ELSE x

\* the wealth of the object as it stands
LiveWealth == Deref(self.wealth)

AllZero(d) == \A i \in 1..Len(d) : d[i].c = 0

NoneNegative(d) == \A i \in 1..Len(d) : d[i].c >= 0

\* np.sum(sorted_wealth) == 0.0
ZeroTotal(d) == SortedSum(sort_wealth(d)).m = <<>>

\* C1 (as claimed): after a perform_sale the sum of the balances differs from
\* the sum before it by at most 0.01 x the number of people, whatever was drawn.
C1_SumConserved ==
    (self.exists /\ hist.sales > 0) =>
        Abs(TotalCents(LiveWealth) - TotalCents(hist.before)) <= self.n_people

\* C2 (as claimed): two objects made with the same seed, parameters and start
\* wealth hold the same wealth after the same number of perform_sale calls.
C2_SameSeedSameWealth ==
    ( /\ engines[1].exists /\ engines[2].exists
      /\ engines[1].seed = engines[2].seed
      /\ engines[1].start = engines[2].start
      /\ engines[1].win_percentage = engines[2].win_percentage
      /\ engines[1].chi = engines[2].chi
      /\ engines[1].zeta = engines[2].zeta
      /\ engines[1].kappa = engines[2].kappa
      /\ engines[1].sales = engines[2].sales ) =>
        AsMap(engines[1].wealth) = AsMap(engines[2].wealth)

\* C3 (as claimed): from start balances none of which is negative, after every
\* perform_sale every balance is at least -kappa x avg_wealth, avg_wealth being
\* the mean taken at the start of that sale.
C3_DebtFloor ==
    (self.exists /\ hist.sales > 0 /\ NoneNegative(hist.start)) =>
        \A i \in 1..Len(LiveWealth) :
            FCmp[Val(LiveWealth[i]), FNeg[FMul[self.kappa, self.avg_wealth]]] >= 0

\* C4: the snapshot run_yard_sale stored for round i is the wealth as it stood
\* right after round i, whatever sales were performed since.
C4_SnapshotsKeep ==
    \A i \in DOMAIN yard_sale :
        yard_sale[i] \in DOMAIN heap /\ Deref(yard_sale[i]) = hist.log[i]

\* C4, its case reached: a snapshot that the wealth has moved away from
C4_SnapshotOutlived ==
    /\ self.exists
    /\ \E i \in DOMAIN yard_sale : AsMap(Deref(yard_sale[i])) # AsMap(LiveWealth)

\* C5 (as claimed): run_yard_sale with plot true and 1 <= plot_n <= n performs
\* n sales and returns the snapshots of the rounds that are multiples of
\* plot_n, each the wealth as it stood right after its round.
C5_RunHistory ==
    ( /\ ret.op = "run_yard_sale" /\ ret.args.plot
      /\ 1 <= ret.args.plot_n /\ ret.args.plot_n <= self.n ) =>
        /\ ret.raised = "none"
        /\ Len(hist.log) = self.n
        /\ DOMAIN ret.value.snapshots = {i \in 1..self.n : i % ret.args.plot_n = 0}
        /\ \A i \in DOMAIN ret.value.snapshots :
              Deref(ret.value.snapshots[i]) = hist.log[i]

\* C6: run_yard_sale with plot true and plot_n > n raises before any round:
\* the wealth, the number of draws made and the snapshots stay as they were.
C6_RejectedRun ==
    [][/\ (frame.pc = "idle" /\ frame'.pc = "loop") =>
              ~(frame'.plot /\ frame'.plot_n > self.n)
       /\ ret'.raised = "plot_n needs to be lower than n" =>
              /\ ret'.args.plot /\ ret'.args.plot_n > self.n
              /\ UNCHANGED <<self, heap, hist, yard_sale, frame>>]_vars

\* C6, its case reached: a run_yard_sale that was rejected
C6_Rejected ==
    ret.op = "run_yard_sale" /\ ret.raised = "plot_n needs to be lower than n"

\* C7: construction raises for a start_wealth that is no dict, is empty or has
\* an odd number of people, and then no object exists; for every other
\* start_wealth it succeeds.
C7_Validation ==
    ret.op = "__init__" =>
        IF ~ret.args.isdict \/ Len(ret.args.items) = 0 \/ Len(ret.args.items) % 2 = 1
        THEN ret.raised # "none" /\ ~self.exists
        ELSE ret.raised = "none" /\ self.exists

\* C7, its case reached: a dict of three people was turned down
C7_OddRejected ==
    /\ ret.op = "__init__" /\ ret.args.isdict /\ Len(ret.args.items) = 3
    /\ ret.raised = "start_wealth needs an even number of people"

\* C8 (as amended): calc_gini raises nothing when the total wealth is zero: it
\* returns nan when all balances are zero and an infinity when they cancel
\* out, and it leaves the wealth as it was.
C8_GiniNotFinite ==
    [][(ret'.op = "calc_gini" /\ calc_gini /\ ZeroTotal(LiveWealth)) =>
          /\ ret'.raised = "none"
          /\ ret'.value.kind = (IF AllZero(LiveWealth) THEN "nan" ELSE "inf")
          /\ UNCHANGED <<self, heap>>]_vars

\* C8, its case reached: calc_gini returned for balances that cancel out
C8_GiniOfZeroTotal ==
    /\ ret.op = "calc_gini" /\ ZeroTotal(LiveWealth) /\ ~AllZero(LiveWealth)
    /\ ret.value.kind = "inf"

\* C8 (as claimed): calc_gini raises an arithmetic error whenever the total
\* wealth is zero.
C8_GiniRaises ==
    (ret.op = "calc_gini" /\ TotalCents(LiveWealth) = 0) => ret.raised # "none"

\* the y of the Lorenz points never decreases from one point to the next
YNeverDecreases(rows) ==
    \A k \in 1..(Len(rows) - 1) : FCmp[rows[k].y.v, rows[k + 1].y.v] <= 0

\* the Lorenz points start at (0,0) and end at (1,1)
FromOriginToOne(rows) ==
    /\ rows[1].x = FZero
    /\ rows[1].y = [kind |-> "finite", v |-> FZero]
    /\ rows[Len(rows)].x = FromInt[1]
    /\ rows[Len(rows)].y = [kind |-> "finite", v |-> FromInt[1]]

\* C9 (as amended): for a wealth whose total is not zero the Lorenz points
\* start at (0,0) and end at (1,1), and their y never decreases when no
\* balance is negative.
C9_LorenzCurve ==
    (ret.op = "plot_lorenz_curve" /\ ~ZeroTotal(LiveWealth)) =>
        /\ FromOriginToOne(ret.value.rows)
        /\ NoneNegative(LiveWealth) => YNeverDecreases(ret.value.rows)

\* C9, its case reached: the points of a wealth that sales have made unequal
C9_LorenzDrawn ==
    /\ ret.op = "plot_lorenz_curve" /\ hist.sales > 0
    /\ ~ZeroTotal(LiveWealth) /\ NoneNegative(LiveWealth)
    /\ LiveWealth[1].c # LiveWealth[2].c

\* C9 (as claimed): for every wealth whose total is not zero, negative
\* balances included, the Lorenz points start at (0,0), end at (1,1) and have
\* a y that never decreases.
C9_LorenzAlwaysRises ==
    (ret.op = "plot_lorenz_curve" /\ ~ZeroTotal(LiveWealth)) =>
        FromOriginToOne(ret.value.rows) /\ YNeverDecreases(ret.value.rows)

\* the chi the object was made with, as the fraction it was written as
ChiOf == (CHOOSE s \in Settings : ToFloat[s.chi] = self.chi).chi

\* the integer nearest to a / b for b > 0, a tie going to the even one
RoundDiv(a, b) ==
    IF 2 * (a % b) > b \/ (2 * (a % b) = b /\ (a \div b) % 2 = 1)
    THEN (a \div b) + 1 ELSE a \div b

\* the reference tax phase of C10, in whole cents
RefIsRich(d, i) == d[i].c * Len(d) > TotalCents(d)

RefTax(d, chi) ==
    (chi.num * TotalCents(SelectSeq(d, LAMBDA it : it.c * Len(d) > TotalCents(d)))) \div chi.den

RefPoorCount(d) == Cardinality({i \in 1..Len(d) : ~RefIsRich(d, i)})

RefTaxed(d, chi) ==
    [person \in {d[i].p : i \in 1..Len(d)} |->
        IF RefIsRich(d, Lookup(d, person))
        THEN RoundDiv(d[Lookup(d, person)].c * (chi.den - chi.num), chi.den)
        ELSE d[Lookup(d, person)].c + RoundDiv(RefTax(d, chi), RefPoorCount(d))]

\* C10 (as claimed): the tax phase of a sale takes the wealth to the reference
\* result: who is above the mean pays chi of the balance, the tax is chi x the
\* sum of those balances cut down to a whole cent, and who is not above the
\* mean gets an equal share of it; {A: 50, B: 150} with chi = 0.1 becomes
\* {A: 65.00, B: 135.00}.
C10_TaxReference ==
    (self.exists /\ hist.sales > 0) =>
        /\ hist.taxed # <<>>
        /\ AsMap(hist.taxed) = RefTaxed(hist.before, ChiOf)

====
